---- MODULE Spec2Model ----
(***************************************************************************)
(* A model of SpacedRepetitionSystem (src/spaced-repetition.js): the       *)
(* localStorage blob, the wall clock read by every `new Date()`, and one   *)
(* action per method.  Times are integers counted in ticks, TicksPerDay    *)
(* ticks to a calendar day; a stored date is the ISO string produced by    *)
(* toISOString, modelled as the pair <<day, tick within the day>>.         *)
(***************************************************************************)
EXTENDS Integers, Sequences, FiniteSets, TLC

(* ---------------------------------------------------------------------- *)
(* Bounds of the model                                                     *)
(* ---------------------------------------------------------------------- *)
TicksPerDay == 2
MaxClock == 2
MaxDrift == 1
MaxReviewCount == 5
MaxPast == 1
MaxNow == 3

(* ---------------------------------------------------------------------- *)
(* Constants of the program and the inputs the callers draw from           *)
(* ---------------------------------------------------------------------- *)
storageKey == "spacedRepetitionData"
intervals == <<1, 3, 7, 14, 30>>
levels == <<"a1", "a2", "b1", "b2", "c1", "c2">>

(* null where a string is expected, null where a date string is expected *)
Null == "null"
NullDate == <<>>
Undefined == "undefined"

InputItems == {<<"a1", "vocab", 1>>, <<"b2", "sentence", 1>>}
FreshItems == {<<"a1", "vocab", 1>>}
StoredCounts == {1, 3, 4}
InputData == {"cat", "dog"}
LevelArgs == {Null, "a1", "b2"}
TypeArgs == {Null, "vocab", "sentence"}

VARIABLES localStorage, clock, last, tabs, streak
(* last.op leads: two states are told apart by the operation that ran       *)
(* before the values it took and returned, whose shapes differ per          *)
(* operation, are compared.                                                 *)
vars == <<last.op, localStorage, clock, last, tabs, streak>>

(* ---------------------------------------------------------------------- *)
(* Date: new Date(), toISOString, new Date(string), getDate/setDate        *)
(* ---------------------------------------------------------------------- *)
toISOString(t) == <<t \div TicksPerDay, t % TicksPerDay>>
ParseDate(s) == s[1] * TicksPerDay + s[2]
getDate(t) == t \div TicksPerDay
setDate(t, day) == day * TicksPerDay + (t % TicksPerDay)

Min(a, b) == IF a <= b THEN a ELSE b

(* The clock values n successive `new Date()` calls of one handler can    *)
(* return: the first is the clock at the call, each later one is the      *)
(* previous plus a drift of 0..MaxDrift; M caps the clock.                 *)
RECURSIVE ReadsFrom(_, _, _)
ReadsFrom(t, n, M) ==
    IF n = 1 THEN {<<t>>}
    ELSE UNION {{<<t>> \o s : s \in ReadsFrom(t + d, n - 1, M)} :
                   d \in {e \in 0..MaxDrift : t + e <= M}}

(* ---------------------------------------------------------------------- *)
(* JSON values and texts, and the blob under storageKey                    *)
(* An object is its own keys in insertion order and their values; any      *)
(* other value (an array, a number, a string, null) is [json |-> kind].    *)
(* A text is what it spells (kind), the indentation it was written with    *)
(* (space) and, for an object, the sequence of its <<key, value>>          *)
(* members; "malformed" is a text JSON.parse throws on.                    *)
(* ---------------------------------------------------------------------- *)
EmptyObject == [keys |-> <<>>, vals |-> <<>>]

IsObject(value) == "keys" \in DOMAIN value

JSONstringifySpace(value, space) ==
    IF IsObject(value)
    THEN [kind |-> "object", space |-> space,
          members |-> [i \in 1..Len(value.keys) |->
                          <<value.keys[i], value.vals[value.keys[i]]>>]]
    ELSE [kind |-> value.json, space |-> space, members |-> <<>>]

JSONstringify(value) == JSONstringifySpace(value, 0)

JSONparse(text) ==
    LET members == text.members
        first(i) == \A j \in 1..(i - 1) : members[j][1] # members[i][1]
        lastOf(k) == CHOOSE i \in 1..Len(members) :
                        /\ members[i][1] = k
                        /\ \A j \in (i + 1)..Len(members) : members[j][1] # k
        idx == {i \in 1..Len(members) : first(i)}
        pos(i) == Cardinality({j \in idx : j <= i})
    IN  IF text.kind = "object"
        THEN [keys |-> [n \in 1..Cardinality(idx) |->
                           members[CHOOSE i \in idx : pos(i) = n][1]],
              vals |-> [k \in {members[i][1] : i \in 1..Len(members)} |->
                           members[lastOf(k)][2]]]
        ELSE [json |-> text.kind]

(* localStorage maps item names to texts; getItem of a missing name is     *)
(* null, which getAllData turns into the empty object.                    *)
NoStorage == [k \in {} |-> <<>>]
setItem(ls, name, text) == [k \in DOMAIN ls \cup {name} |-> IF k = name THEN text ELSE ls[k]]
removeItemLS(ls, name) == [k \in DOMAIN ls \ {name} |-> ls[k]]

getAllDataOf(ls) ==
    IF storageKey \in DOMAIN ls THEN JSONparse(ls[storageKey]) ELSE EmptyObject
getAllData == getAllDataOf(localStorage)
saveAllData(ls, data) == setItem(ls, storageKey, JSONstringify(data))

Has(obj, key) == key \in DOMAIN obj.vals

(* an assignment that leaves the object with the one key assigned *)
PutAlone(obj, key, val) ==
    [keys |-> <<key>>, vals |-> [k \in {key} |-> val]]

Put(obj, key, val) ==
    IF Has(obj, key)
    THEN [obj EXCEPT !.vals = [obj.vals EXCEPT ![key] = val]]
    ELSE [keys |-> Append(obj.keys, key),
          vals |-> [k \in DOMAIN obj.vals \cup {key} |->
                       IF k = key THEN val ELSE obj.vals[k]]]

Delete(obj, key) ==
    [keys |-> SelectSeq(obj.keys, LAMBDA k : k # key),
     vals |-> [k \in DOMAIN obj.vals \ {key} |-> obj.vals[k]]]

MakeKey(level, type, id) == level \o "_" \o type \o "_" \o ToString(id)
ArgKeyOf(arg) == MakeKey(arg[1], arg[2], arg[3])

(* calculateNextReview clamping one rung short of the end of the ladder *)
calculateNextReviewShortClamp(reviewCount, today) ==
    LET intervalIndex == Min(reviewCount, Len(intervals) - 2)
        daysToAdd == intervals[intervalIndex + 1]
        nextDate == setDate(today, getDate(today) + daysToAdd)
    IN  toISOString(nextDate)

(* ---------------------------------------------------------------------- *)
(* calculateNextReview, with `today` the value its new Date() returned     *)
(* ---------------------------------------------------------------------- *)
calculateNextReview(reviewCount, today) ==
    LET intervalIndex == Min(reviewCount, Len(intervals) - 1)
        daysToAdd == intervals[intervalIndex + 1]
        nextDate == setDate(today, getDate(today) + daysToAdd)
    IN  toISOString(nextDate)

(* saveItem restarting the schedule of an item it only had to update *)
saveItemDataRescheduling(allData, level, type, id, data, r) ==
    LET key == MakeKey(level, type, id)
    IN  Put(allData, key,
            [level |-> level,
             type |-> type,
             id |-> id,
             data |-> data,
             savedDate |-> IF Has(allData, key) THEN allData.vals[key].savedDate
                           ELSE toISOString(r[1]),
             lastReviewed |-> NullDate,
             reviewCount |-> 0,
             nextReviewDate |-> calculateNextReview(0, r[1]),
             lastModified |-> toISOString(r[1])])

(* ---------------------------------------------------------------------- *)
(* saveItem: r is the sequence of clock values its new Date() calls        *)
(* return, in evaluation order (savedDate, calculateNextReview,            *)
(* lastModified); the update branch reads the clock once.                  *)
(* ---------------------------------------------------------------------- *)
saveItemData(allData, level, type, id, data, r) ==
    LET key == MakeKey(level, type, id)
    IN  IF Has(allData, key)
        THEN Put(allData, key,
                 [allData.vals[key] EXCEPT !.data = data,
                                           !.lastModified = toISOString(r[1])])
        ELSE Put(allData, key,
                 [level |-> level,
                  type |-> type,
                  id |-> id,
                  data |-> data,
                  savedDate |-> toISOString(r[1]),
                  lastReviewed |-> NullDate,
                  reviewCount |-> 0,
                  nextReviewDate |-> calculateNextReview(0, r[2]),
                  lastModified |-> toISOString(r[3])])


saveItemEffect(ls, level, type, id, data, r) ==
    [storage |-> saveAllData(ls, saveItemData(getAllDataOf(ls), level, type, id, data, r)),
     ret |-> Undefined, wrote |-> TRUE, logged |-> "log"]

(* reviewItem leaving the count as it is when the item was forgotten *)
reviewItemDataKeepsCount(allData, key, remembered, r) ==
    LET item == allData.vals[key]
        count == IF remembered THEN item.reviewCount + 1 ELSE item.reviewCount
    IN  Put(allData, key,
            [item EXCEPT !.lastReviewed = toISOString(r[1]),
                         !.reviewCount = count,
                         !.nextReviewDate = calculateNextReview(count, r[2])])

(* ---------------------------------------------------------------------- *)
(* reviewItem: r[1] is the clock value stored as lastReviewed, r[2] the    *)
(* one calculateNextReview reads afterwards.                               *)
(* ---------------------------------------------------------------------- *)
reviewItemData(allData, key, remembered, r) ==
    LET item == allData.vals[key]
        count == IF remembered THEN item.reviewCount + 1 ELSE 0
    IN  Put(allData, key,
            [item EXCEPT !.lastReviewed = toISOString(r[1]),
                         !.reviewCount = count,
                         !.nextReviewDate = calculateNextReview(count, r[2])])

(* reviewItem logging the missing key and going on to saveAllData *)
reviewItemEffectNoReturn(ls, key, remembered, r) ==
    IF ~Has(getAllDataOf(ls), key)
    THEN [storage |-> saveAllData(ls, getAllDataOf(ls)),
          ret |-> Undefined, wrote |-> TRUE, logged |-> "error"]
    ELSE [storage |-> saveAllData(ls, reviewItemData(getAllDataOf(ls), key, remembered, r)),
          ret |-> Undefined, wrote |-> TRUE, logged |-> "log"]

reviewItemEffect(ls, key, remembered, r) ==
    IF ~Has(getAllDataOf(ls), key)
    THEN [storage |-> ls, ret |-> Undefined, wrote |-> FALSE, logged |-> "error"]
    ELSE [storage |-> saveAllData(ls, reviewItemData(getAllDataOf(ls), key, remembered, r)),
          ret |-> Undefined, wrote |-> TRUE, logged |-> "log"]

(* ---------------------------------------------------------------------- *)
(* Array.prototype.sort with a comparator: stable, ascending by cmp        *)
(* ---------------------------------------------------------------------- *)
(* cmp[i, j] is the comparator applied to the elements s[i] and s[j]        *)
Sort(s, cmp) ==
    LET n == Len(s)
        rank(i) == 1 + Cardinality({j \in 1..n :
                          \/ cmp[j, i] < 0
                          \/ cmp[j, i] = 0 /\ j < i})
    IN  [p \in 1..n |-> s[CHOOSE i \in 1..n : rank(i) = p]]

(* array.filter(test).length; test[i] is the test applied to s[i] *)
Count(s, test) == Cardinality({i \in DOMAIN s : test[i]})

(* `{ key: key, ...item }` *)
WithKey(key, item) == [key |-> key] @@ item

(* ---------------------------------------------------------------------- *)
(* getDueItems, getAllItems, getStatistics: `today` and r are the clock    *)
(* values their new Date() calls return; level/type Null when omitted.     *)
(* ---------------------------------------------------------------------- *)
(* getDueItems leaving out the items due exactly now *)
getDueItemsStrict(allData, level, type, today) ==
    LET pushed(key) ==
            LET item == allData.vals[key]
                nextReview == ParseDate(item.nextReviewDate)
            IN  /\ ~(level # Null /\ item.level # level)
                /\ ~(type # Null /\ item.type # type)
                /\ nextReview < today
        keys == SelectSeq(allData.keys, pushed)
        dueItems == [i \in 1..Len(keys) |-> WithKey(keys[i], allData.vals[keys[i]])]
    IN  Sort(dueItems,
             [a, b \in DOMAIN dueItems |-> ParseDate(dueItems[a].nextReviewDate) - ParseDate(dueItems[b].nextReviewDate)])

getDueItems(allData, level, type, today) ==
    LET pushed(key) ==
            LET item == allData.vals[key]
                nextReview == ParseDate(item.nextReviewDate)
            IN  /\ ~(level # Null /\ item.level # level)
                /\ ~(type # Null /\ item.type # type)
                /\ nextReview <= today
        keys == SelectSeq(allData.keys, pushed)
        dueItems == [i \in 1..Len(keys) |-> WithKey(keys[i], allData.vals[keys[i]])]
    IN  Sort(dueItems,
             [a, b \in DOMAIN dueItems |-> ParseDate(dueItems[a].nextReviewDate) - ParseDate(dueItems[b].nextReviewDate)])

(* getAllItems sorting the oldest first *)
getAllItemsAscending(allData, level, type) ==
    LET pushed(key) ==
            LET item == allData.vals[key]
            IN  /\ ~(level # Null /\ item.level # level)
                /\ ~(type # Null /\ item.type # type)
        keys == SelectSeq(allData.keys, pushed)
        items == [i \in 1..Len(keys) |-> WithKey(keys[i], allData.vals[keys[i]])]
    IN  Sort(items, [a, b \in DOMAIN items |-> ParseDate(items[a].savedDate) - ParseDate(items[b].savedDate)])

getAllItems(allData, level, type) ==
    LET pushed(key) ==
            LET item == allData.vals[key]
            IN  /\ ~(level # Null /\ item.level # level)
                /\ ~(type # Null /\ item.type # type)
        keys == SelectSeq(allData.keys, pushed)
        items == [i \in 1..Len(keys) |-> WithKey(keys[i], allData.vals[keys[i]])]
    IN  Sort(items, [a, b \in DOMAIN items |-> ParseDate(items[b].savedDate) - ParseDate(items[a].savedDate)])

(* getStatistics counting an item as mastered one review too late *)
getStatisticsLateMastered(allData, level, r) ==
    LET allItems == getAllItems(allData, level, Null)
        dueItems == getDueItems(allData, level, Null, r[1])
        byLevel(i) ==
            LET levelItems == getAllItems(allData, levels[i], Null)
                levelDue == getDueItems(allData, levels[i], Null, r[1 + i])
            IN  [total |-> Len(levelItems),
                 dueToday |-> Len(levelDue),
                 vocab |-> Count(levelItems, [n \in DOMAIN levelItems |-> levelItems[n].type = "vocab"]),
                 sentences |-> Count(levelItems, [n \in DOMAIN levelItems |-> levelItems[n].type = "sentence"])]
    IN  [total |-> Len(allItems),
         dueToday |-> Len(dueItems),
         reviewed |-> Count(allItems, [n \in DOMAIN allItems |-> allItems[n].reviewCount > 0]),
         mastered |-> Count(allItems,
                            [n \in DOMAIN allItems |-> allItems[n].reviewCount > Len(intervals) - 1]),
         byLevel |-> [lvl \in {levels[i] : i \in 1..Len(levels)} |->
                         byLevel(CHOOSE i \in 1..Len(levels) : levels[i] = lvl)]]

(* getStatistics narrowing byLevel to the level it was asked about *)
getStatisticsFilteredByLevel(allData, level, r) ==
    LET allItems == getAllItems(allData, level, Null)
        dueItems == getDueItems(allData, level, Null, r[1])
        asked(i) == level = Null \/ level = levels[i]
        byLevel(i) ==
            LET levelItems == IF asked(i) THEN getAllItems(allData, levels[i], Null)
                              ELSE <<>>
                levelDue == IF asked(i) THEN getDueItems(allData, levels[i], Null, r[1 + i])
                            ELSE <<>>
            IN  [total |-> Len(levelItems),
                 dueToday |-> Len(levelDue),
                 vocab |-> Count(levelItems, [n \in DOMAIN levelItems |-> levelItems[n].type = "vocab"]),
                 sentences |-> Count(levelItems, [n \in DOMAIN levelItems |-> levelItems[n].type = "sentence"])]
    IN  [total |-> Len(allItems),
         dueToday |-> Len(dueItems),
         reviewed |-> Count(allItems, [n \in DOMAIN allItems |-> allItems[n].reviewCount > 0]),
         mastered |-> Count(allItems,
                            [n \in DOMAIN allItems |-> allItems[n].reviewCount >= Len(intervals) - 1]),
         byLevel |-> [lvl \in {levels[i] : i \in 1..Len(levels)} |->
                         byLevel(CHOOSE i \in 1..Len(levels) : levels[i] = lvl)]]

(* r[1] is read by getDueItems(level), r[1 + i] by getDueItems(levels[i]) *)
getStatistics(allData, level, r) ==
    LET allItems == getAllItems(allData, level, Null)
        dueItems == getDueItems(allData, level, Null, r[1])
        byLevel(i) ==
            LET levelItems == getAllItems(allData, levels[i], Null)
                levelDue == getDueItems(allData, levels[i], Null, r[1 + i])
            IN  [total |-> Len(levelItems),
                 dueToday |-> Len(levelDue),
                 vocab |-> Count(levelItems, [n \in DOMAIN levelItems |-> levelItems[n].type = "vocab"]),
                 sentences |-> Count(levelItems, [n \in DOMAIN levelItems |-> levelItems[n].type = "sentence"])]
    IN  [total |-> Len(allItems),
         dueToday |-> Len(dueItems),
         reviewed |-> Count(allItems, [n \in DOMAIN allItems |-> allItems[n].reviewCount > 0]),
         mastered |-> Count(allItems,
                            [n \in DOMAIN allItems |-> allItems[n].reviewCount >= Len(intervals) - 1]),
         byLevel |-> [lvl \in {levels[i] : i \in 1..Len(levels)} |->
                         byLevel(CHOOSE i \in 1..Len(levels) : levels[i] = lvl)]]

(* ---------------------------------------------------------------------- *)
(* deleteItem (removeItem builds the key and calls it), resetAll           *)
(* ---------------------------------------------------------------------- *)
(* deleteItem writing the store back whether or not it removed anything *)
deleteItemEffectAlwaysWrites(ls, key) ==
    [storage |-> saveAllData(ls, Delete(getAllDataOf(ls), key)),
     ret |-> Undefined, wrote |-> TRUE,
     logged |-> IF Has(getAllDataOf(ls), key) THEN "log" ELSE Null]

deleteItemEffect(ls, key) ==
    IF Has(getAllDataOf(ls), key)
    THEN [storage |-> saveAllData(ls, Delete(getAllDataOf(ls), key)),
          ret |-> Undefined, wrote |-> TRUE, logged |-> "log"]
    ELSE [storage |-> ls, ret |-> Undefined, wrote |-> FALSE, logged |-> Null]

(* resetAll removing the blob without waiting for the answer of confirm() *)
resetAllEffectUnconfirmed(ls, confirmed) ==
    [storage |-> removeItemLS(ls, storageKey),
     ret |-> confirmed, wrote |-> TRUE, logged |-> "log"]

resetAllEffect(ls, confirmed) ==
    IF confirmed
    THEN [storage |-> removeItemLS(ls, storageKey),
          ret |-> TRUE, wrote |-> TRUE, logged |-> "log"]
    ELSE [storage |-> ls, ret |-> FALSE, wrote |-> FALSE, logged |-> Null]

(* ---------------------------------------------------------------------- *)
(* The files a user may pick for importData: one that is not JSON, JSON    *)
(* that is not an object, an object whose entry is not a ReviewItem, the   *)
(* backup of another store, and a backup naming one key twice.             *)
(* ---------------------------------------------------------------------- *)
Text(kind, members) == [kind |-> kind, space |-> 2, members |-> members]
OtherStore == saveItemData(EmptyObject, "a1", "vocab", 1, "dog", <<0, 0, 0>>)
ImportFiles ==
    {Text("malformed", <<>>),
     Text("array", <<>>), Text("number", <<>>), Text("string", <<>>), Text("null", <<>>),
     Text("object", <<<<"x", [english |-> "cat"]>>>>),
     JSONstringifySpace(OtherStore, 2),
     Text("object", JSONstringify(OtherStore).members
                      \o JSONstringify(reviewItemData(OtherStore, "a1_vocab_1", TRUE,
                                                      <<1, 1>>)).members)}

(* ---------------------------------------------------------------------- *)
(* exportData: the file handed to the browser is named after the day of    *)
(* its new Date() and holds the store written with an indentation of 2.    *)
(* ---------------------------------------------------------------------- *)
exportDataEffect(ls, today) ==
    [storage |-> ls, ret |-> Undefined, wrote |-> FALSE, logged |-> "log",
     downloaded |-> [name |-> toISOString(today)[1],
                     text |-> JSONstringifySpace(getAllDataOf(ls), 2)]]

(* importData storing whatever parses without asking for confirmation *)
importDataEffectUnconfirmed(ls, text, confirmed) ==
    IF text.kind = "malformed"
    THEN [storage |-> ls, ret |-> FALSE, wrote |-> FALSE, logged |-> "error"]
    ELSE [storage |-> saveAllData(ls, JSONparse(text)),
          ret |-> TRUE, wrote |-> TRUE, logged |-> "log"]

(* importData handing the text of the file, not the parsed data, to        *)
(* saveAllData, which stores it as a JSON string                           *)
importDataEffectStoresText(ls, text, confirmed) ==
    IF text.kind = "malformed"
    THEN [storage |-> ls, ret |-> FALSE, wrote |-> FALSE, logged |-> "error"]
    ELSE IF confirmed
         THEN [storage |-> saveAllData(ls, [json |-> "string"]),
               ret |-> TRUE, wrote |-> TRUE, logged |-> "log"]
         ELSE [storage |-> ls, ret |-> FALSE, wrote |-> FALSE, logged |-> Null]

(* ---------------------------------------------------------------------- *)
(* importData, from the point where file.text() has resolved to `text`:    *)
(* JSON.parse throwing lands in the catch, which logs and alerts;          *)
(* `confirmed` is the answer of confirm(), asked only once the text has    *)
(* parsed.                                                                 *)
(* ---------------------------------------------------------------------- *)
importDataEffect(ls, text, confirmed) ==
    IF text.kind = "malformed"
    THEN [storage |-> ls, ret |-> FALSE, wrote |-> FALSE, logged |-> "error"]
    ELSE IF confirmed
         THEN [storage |-> saveAllData(ls, JSONparse(text)),
               ret |-> TRUE, wrote |-> TRUE, logged |-> "log"]
         ELSE [storage |-> ls, ret |-> FALSE, wrote |-> FALSE, logged |-> Null]

(* ---------------------------------------------------------------------- *)
(* The calls.  `last` is what the call that has just returned did (none   *)
(* once the clock has moved on), as its caller and the console saw it:    *)
(* the method, its argument (for resetAll and importData the answer of    *)
(* confirm() too), the clock when it was called (the value of its first   *)
(* new Date(), if it has one), its return value, whether it wrote         *)
(* localStorage, what it logged, whether it threw, the file it gave the   *)
(* browser to download.  A session S names the items its caller picks     *)
(* from, the cap on the clock, and whether it ends after one call.        *)
(* ---------------------------------------------------------------------- *)
Fresh == [items |-> FreshItems, cap |-> MaxClock, once |-> FALSE]
Persisted == [items |-> InputItems, cap |-> MaxNow, once |-> TRUE]

Ready(S) == S.once => last.op = "constructor"

(* ---------------------------------------------------------------------- *)
(* The history of the calls, kept beside the store: for every key saved    *)
(* and not deleted since, the number of reviewItem(key, true) calls since  *)
(* the key was created or last reviewed with remembered = false.           *)
(* ---------------------------------------------------------------------- *)
NoStreak == [k \in {} |-> 0]

StreakAfter(op, arg) ==
    LET key == CASE op \in {"saveItem", "removeItem"} -> ArgKeyOf(arg)
                 [] op = "reviewItem" -> arg[1]
                 [] OTHER -> arg
    IN  CASE op = "saveItem" ->
                 [k \in DOMAIN streak \cup {key} |->
                     IF k \in DOMAIN streak THEN streak[k] ELSE 0]
          [] op = "reviewItem" ->
                 [k \in DOMAIN streak |->
                     IF k # key THEN streak[k]
                     ELSE IF arg[2] THEN streak[k] + 1 ELSE 0]
          [] op \in {"deleteItem", "removeItem"} ->
                 [k \in DOMAIN streak \ {key} |-> streak[k]]
          [] op = "resetAll" -> IF arg THEN NoStreak ELSE streak
          [] OTHER -> streak

Do(op, arg, now, e, t) ==
    /\ localStorage' = e.storage
    /\ clock' = t
    /\ last' = [op |-> op, arg |-> arg, now |-> now, ret |-> e.ret,
                wrote |-> e.wrote, logged |-> e.logged, thrown |-> FALSE,
                downloaded |-> IF "downloaded" \in DOMAIN e THEN e.downloaded ELSE Null]
    /\ streak' = StreakAfter(op, arg)
    /\ UNCHANGED tabs

Query(ret) == [storage |-> localStorage, ret |-> ret, wrote |-> FALSE, logged |-> Null]

KeysOf(I) == {MakeKey(it[1], it[2], it[3]) : it \in I}

saveItemCall(level, type, id, data, M) ==
    LET n == IF Has(getAllData, MakeKey(level, type, id)) THEN 1 ELSE 3
    IN  \E r \in ReadsFrom(clock, n, M) :
            Do("saveItem", <<level, type, id, data>>, r[1],
               saveItemEffect(localStorage, level, type, id, data, r), r[n])

SaveItem(S) ==
    \E it \in S.items, data \in InputData :
        /\ Ready(S)
        /\ saveItemCall(it[1], it[2], it[3], data, S.cap)

AddItem(S) ==
    \E it \in S.items, data \in InputData :
        /\ Ready(S)
        /\ saveItemCall(it[1], it[2], it[3], data, S.cap)

CalculateNextReview(S) ==
    \E reviewCount \in 0..(MaxReviewCount + 1) :
        /\ Ready(S)
        /\ Do("calculateNextReview", reviewCount, clock,
              Query(calculateNextReview(reviewCount, clock)), clock)

ReviewItem(S) ==
    \E key \in KeysOf(S.items), remembered \in BOOLEAN :
        LET allData == getAllData
            n == IF Has(allData, key) THEN 2 ELSE 1
        IN  /\ Ready(S)
            /\ (Has(allData, key) /\ remembered)
                  => allData.vals[key].reviewCount < MaxReviewCount
            /\ \E r \in ReadsFrom(clock, n, S.cap) :
                  Do("reviewItem", <<key, remembered>>, r[1],
                     reviewItemEffect(localStorage, key, remembered, r), r[n])

GetDueItems(S) ==
    \E level \in LevelArgs, type \in TypeArgs :
        /\ Ready(S)
        /\ Do("getDueItems", <<level, type>>, clock,
              Query(getDueItems(getAllData, level, type, clock)), clock)

GetAllItems(S) ==
    \E level \in LevelArgs, type \in TypeArgs :
        /\ Ready(S)
        /\ Do("getAllItems", <<level, type>>, clock,
              Query(getAllItems(getAllData, level, type)), clock)

GetStatistics(S) ==
    \E level \in LevelArgs, r \in ReadsFrom(clock, 1 + Len(levels), S.cap) :
        /\ Ready(S)
        /\ Do("getStatistics", level, r[1],
              Query(getStatistics(getAllData, level, r)), r[1 + Len(levels)])

DeleteItem(S) ==
    \E key \in KeysOf(S.items) :
        /\ Ready(S)
        /\ Do("deleteItem", key, clock, deleteItemEffect(localStorage, key), clock)

RemoveItem(S) ==
    \E it \in S.items :
        /\ Ready(S)
        /\ Do("removeItem", <<it[1], it[2], it[3]>>, clock,
              deleteItemEffect(localStorage, MakeKey(it[1], it[2], it[3])), clock)

ResetAll(S) ==
    \E confirmed \in BOOLEAN :
        /\ Ready(S)
        /\ Do("resetAll", confirmed, clock, resetAllEffect(localStorage, confirmed), clock)

ExportData(S) ==
    /\ Ready(S)
    /\ Do("exportData", Null, clock, exportDataEffect(localStorage, clock), clock)

(* The file the user picks: one of ImportFiles, or the one exportData has  *)
(* just downloaded.                                                        *)
Downloaded == IF last.op = "exportData" THEN {last.downloaded.text} ELSE {}

ImportData(S) ==
    \E text \in ImportFiles \cup Downloaded, confirmed \in BOOLEAN :
        /\ Ready(S)
        /\ Do("importData", <<text, confirmed>>, clock,
              importDataEffect(localStorage, text, confirmed), clock)

(* ---------------------------------------------------------------------- *)
(* Two pages on the same localStorage, each calling saveItem once.  A      *)
(* call is its getAllData (line 22), then, on the object it got, the       *)
(* update and saveAllData (lines 24-42).  tabs[t] is where page t is in    *)
(* its call, the arguments, the object its getAllData returned, and the    *)
(* places of its read and of its write among the reads and writes of both  *)
(* pages (0: not yet).                                                     *)
(* ---------------------------------------------------------------------- *)
Tabs == {1, 2}
IdleTab == [pc |-> "idle", arg |-> <<>>, allData |-> EmptyObject, read |-> 0, write |-> 0]
NoTabs == [t \in Tabs |-> IdleTab]
Events == Cardinality({t \in Tabs : tabs[t].read > 0})
              + Cardinality({t \in Tabs : tabs[t].write > 0})

(* a saveAllData of the object getAllData returns at the time of the write *)
TabMutateRereading(t, r) ==
    saveItemData(getAllData, tabs[t].arg[1], tabs[t].arg[2], tabs[t].arg[3],
                 tabs[t].arg[4], r)

TabMutate(t, r) ==
    saveItemData(tabs[t].allData, tabs[t].arg[1], tabs[t].arg[2], tabs[t].arg[3],
                 tabs[t].arg[4], r)

TabRead(S) ==
    \E t \in Tabs, it \in S.items, data \in InputData :
        /\ tabs[t].pc = "idle"
        /\ tabs' = [tabs EXCEPT ![t] =
                       [pc |-> "read", arg |-> <<it[1], it[2], it[3], data>>,
                        allData |-> getAllData, read |-> Events + 1, write |-> 0]]
        /\ UNCHANGED <<localStorage, clock, last, streak>>

TabWrite(S) ==
    \E t \in Tabs :
        LET n == IF Has(tabs[t].allData, ArgKeyOf(tabs[t].arg)) THEN 1 ELSE 3
        IN  /\ tabs[t].pc = "read"
            /\ \E r \in ReadsFrom(clock, n, S.cap) :
                  /\ localStorage' = saveAllData(localStorage, TabMutate(t, r))
                  /\ clock' = r[n]
                  /\ last' = [op |-> "saveItem", arg |-> tabs[t].arg, now |-> r[1],
                              ret |-> Undefined, wrote |-> TRUE, logged |-> "log",
                              thrown |-> FALSE, downloaded |-> Null]
            /\ streak' = StreakAfter("saveItem", tabs[t].arg)
            /\ tabs' = [tabs EXCEPT ![t].pc = "done", ![t].write = Events + 1]

Idle == [op |-> "none", arg |-> Null, now |-> 0, ret |-> Undefined,
         wrote |-> FALSE, logged |-> Null, thrown |-> FALSE, downloaded |-> Null]

(* Time passes between two calls. *)
Tick(S) ==
    /\ ~S.once
    /\ clock < S.cap
    /\ clock' = clock + 1
    /\ last' = Idle
    /\ UNCHANGED <<localStorage, tabs, streak>>

Constructed == [op |-> "constructor", arg |-> Null, now |-> 0, ret |-> Undefined,
                wrote |-> FALSE, logged |-> "log", thrown |-> FALSE, downloaded |-> Null]

(* ---------------------------------------------------------------------- *)
(* Spec: a first session on an empty localStorage, any number of calls     *)
(* about the items of FreshItems.                                          *)
(* ---------------------------------------------------------------------- *)
Init ==
    /\ localStorage = NoStorage
    /\ clock = 0
    /\ last = Constructed
    /\ tabs = NoTabs
    /\ streak = NoStreak

Next ==
    \/ SaveItem(Fresh)
    \/ AddItem(Fresh)
    \/ CalculateNextReview(Fresh)
    \/ ReviewItem(Fresh)
    \/ GetDueItems(Fresh)
    \/ GetAllItems(Fresh)
    \/ GetStatistics(Fresh)
    \/ DeleteItem(Fresh)
    \/ RemoveItem(Fresh)
    \/ ResetAll(Fresh)
    \/ Tick(Fresh)

Spec == Init /\ [][Next]_vars

(* ---------------------------------------------------------------------- *)
(* SpecPersisted: a page load over what earlier sessions left in           *)
(* localStorage (the constructor does not touch it), then one call.        *)
(* An earlier session saved some of the items of InputItems, in this       *)
(* order, each at clock value `saved`; some it then reviewed, `count`      *)
(* times remembered or once forgotten, the last time at clock value `at`.  *)
(* Calls on different keys change different entries, so the stored result  *)
(* is that of running each item's calls in turn.                           *)
(* ---------------------------------------------------------------------- *)
Histories ==
    {h \in [item : InputItems, saved : 0..MaxPast, at : 0..MaxPast,
            review : {"none", "forgot", "remembered"}, count : StoredCounts] :
        /\ h.at >= h.saved
        /\ h.review = "none" => h.at = h.saved
        /\ h.review # "remembered" => \A c \in StoredCounts : h.count <= c}

RECURSIVE Remembered(_, _, _, _)
Remembered(allData, key, n, at) ==
    IF n = 0 THEN allData
    ELSE Remembered(reviewItemData(allData, key, TRUE, <<at, at>>), key, n - 1, at)

Replay(allData, h) ==
    LET key == MakeKey(h.item[1], h.item[2], h.item[3])
        saved == saveItemData(allData, h.item[1], h.item[2], h.item[3], "cat",
                              <<h.saved, h.saved, h.saved>>)
    IN  CASE h.review = "none" -> saved
          [] h.review = "forgot" -> reviewItemData(saved, key, FALSE, <<h.at, h.at>>)
          [] OTHER -> Remembered(saved, key, h.count, h.at)

RECURSIVE ReplayAll(_, _)
ReplayAll(allData, hs) ==
    IF hs = <<>> THEN allData ELSE ReplayAll(Replay(allData, Head(hs)), Tail(hs))

Sessions ==
    {hs \in UNION {[1..n -> Histories] : n \in 0..Cardinality(InputItems)} :
        \A i, j \in 1..Len(hs) :
            i < j => hs[i].item # hs[j].item /\ hs[i].saved <= hs[j].saved}

InitPersisted ==
    \E hs \in Sessions :
        /\ localStorage \in {NoStorage, saveAllData(NoStorage, ReplayAll(EmptyObject, hs))}
        /\ hs # <<>> => localStorage # NoStorage
        /\ clock \in 0..MaxNow
        /\ \A i \in 1..Len(hs) : hs[i].at <= clock
        /\ last = Constructed
        /\ tabs = NoTabs
        /\ streak = [k \in {ArgKeyOf(hs[i].item) : i \in 1..Len(hs)} |->
                        LET h == hs[CHOOSE i \in 1..Len(hs) : ArgKeyOf(hs[i].item) = k]
                        IN  IF h.review = "remembered" THEN h.count ELSE 0]

NextPersisted ==
    \/ SaveItem(Persisted)
    \/ AddItem(Persisted)
    \/ CalculateNextReview(Persisted)
    \/ ReviewItem(Persisted)
    \/ GetDueItems(Persisted)
    \/ GetAllItems(Persisted)
    \/ GetStatistics(Persisted)
    \/ DeleteItem(Persisted)
    \/ RemoveItem(Persisted)
    \/ ResetAll(Persisted)

SpecPersisted == InitPersisted /\ [][NextPersisted]_vars

(* ---------------------------------------------------------------------- *)
(* SpecBackup: a page load over what earlier sessions left, then any       *)
(* number of exports and imports.                                          *)
(* ---------------------------------------------------------------------- *)
Backup == [items |-> InputItems, cap |-> MaxNow, once |-> FALSE]

NextBackup ==
    \/ ExportData(Backup)
    \/ ImportData(Backup)

SpecBackup == InitPersisted /\ [][NextBackup]_vars

(* ---------------------------------------------------------------------- *)
(* SpecTabs: two pages loaded over what earlier sessions left, each        *)
(* calling saveItem once, their reads and writes of localStorage in any    *)
(* order.                                                                  *)
(* ---------------------------------------------------------------------- *)
NextTabs ==
    \/ TabRead(Backup)
    \/ TabWrite(Backup)

SpecTabs == InitPersisted /\ [][NextTabs]_vars


(* ---------------------------------------------------------------------- *)
(* Vocabulary of the properties                                            *)
(* ---------------------------------------------------------------------- *)
Days(n) == n * TicksPerDay

(* The interval ladder as the documentation gives it: 1, 3, 7, 14 and     *)
(* then 30 days.                                                           *)
Ladder(reviewCount) ==
    CASE reviewCount = 0 -> 1
      [] reviewCount = 1 -> 3
      [] reviewCount = 2 -> 7
      [] reviewCount = 3 -> 14
      [] OTHER -> 30

Stored == getAllData
StoredKeys == DOMAIN Stored.vals
StoredNext == getAllDataOf(localStorage')
ArgKey(arg) == MakeKey(arg[1], arg[2], arg[3])
Matches(item, level, type) ==
    /\ level = Null \/ item.level = level
    /\ type = Null \/ item.type = type
KeysIn(ret) == {ret[i].key : i \in 1..Len(ret)}

(* ---------------------------------------------------------------------- *)
(* C1.  saveItem on a key already in the store replaces that item's data   *)
(* and lastModified only: reviewCount, nextReviewDate, lastReviewed and    *)
(* savedDate (and level, type, id) are the same after the call as before,  *)
(* for every payload, the stored one included.                             *)
(* ---------------------------------------------------------------------- *)
C1_SaveExistingKeepsSchedule ==
    [][(last'.op = "saveItem" /\ Has(Stored, ArgKey(last'.arg))) =>
          LET key == ArgKey(last'.arg)
              old == Stored.vals[key]
              new == StoredNext.vals[key]
          IN  /\ Has(StoredNext, key)
              /\ new.reviewCount = old.reviewCount
              /\ new.nextReviewDate = old.nextReviewDate
              /\ new.lastReviewed = old.lastReviewed
              /\ new.savedDate = old.savedDate
              /\ new.level = old.level /\ new.type = old.type /\ new.id = old.id
              /\ new.data = last'.arg[4]
              /\ new.lastModified = toISOString(last'.now)]_vars

(* A reviewed item (count 2 or more, so it was in the store before this   *)
(* call) has just been saved again, with the payload it already had or    *)
(* with another one.                                                       *)
C1_Witness ==
    /\ last.op = "saveItem"
    /\ Has(Stored, ArgKey(last.arg))
    /\ Stored.vals[ArgKey(last.arg)].reviewCount >= 2
    /\ Stored.vals[ArgKey(last.arg)].lastModified = toISOString(last.now)
    /\ ParseDate(Stored.vals[ArgKey(last.arg)].lastModified)
          > ParseDate(Stored.vals[ArgKey(last.arg)].savedDate)

(* ---------------------------------------------------------------------- *)
(* C2.  saveItem on a key absent from the store creates exactly one entry  *)
(* under "level_type_id" with reviewCount 0, lastReviewed null,            *)
(* savedDate = lastModified = now, the given level, type, id and data,     *)
(* and nextReviewDate = now + 1 day.                                       *)
(* ---------------------------------------------------------------------- *)
C2_CreateStampsOneNow ==
    [][(last'.op = "saveItem" /\ ~Has(Stored, ArgKey(last'.arg))) =>
          LET key == ArgKey(last'.arg)
              now == last'.now
          IN  /\ StoredNext.keys = Append(Stored.keys, key)
              /\ \A k \in StoredKeys : StoredNext.vals[k] = Stored.vals[k]
              /\ StoredNext.vals[key] =
                    [level |-> last'.arg[1], type |-> last'.arg[2],
                     id |-> last'.arg[3], data |-> last'.arg[4],
                     savedDate |-> toISOString(now),
                     lastReviewed |-> NullDate,
                     reviewCount |-> 0,
                     nextReviewDate |-> toISOString(now + Days(1)),
                     lastModified |-> toISOString(now)]]_vars

(* ---------------------------------------------------------------------- *)
(* C3.  reviewItem on an existing key sets lastReviewed = now; remembered  *)
(* makes reviewCount the old count + 1, forgotten makes it 0; in both      *)
(* cases nextReviewDate = now + ladder[min(new count, 4)] days.            *)
(* ---------------------------------------------------------------------- *)
C3_ReviewStampsOneNow ==
    [][(last'.op = "reviewItem" /\ Has(Stored, last'.arg[1])) =>
          LET key == last'.arg[1]
              old == Stored.vals[key]
              new == StoredNext.vals[key]
              now == last'.now
          IN  /\ new.lastReviewed = toISOString(now)
              /\ new.reviewCount = IF last'.arg[2] THEN old.reviewCount + 1 ELSE 0
              /\ ParseDate(new.nextReviewDate) = now + Days(Ladder(new.reviewCount))]_vars

(* ---------------------------------------------------------------------- *)
(* C4.  reviewItem with a key that is not in the store leaves the whole    *)
(* persisted store as it was (nothing created, nothing modified, no        *)
(* write), reports the condition on the console and returns normally,      *)
(* remembered or not.                                                      *)
(* ---------------------------------------------------------------------- *)
C4_ReviewAbsentKeyIsNoOp ==
    [][(last'.op = "reviewItem" /\ ~Has(Stored, last'.arg[1])) =>
          /\ localStorage' = localStorage
          /\ ~last'.wrote
          /\ ~last'.thrown
          /\ last'.ret = Undefined
          /\ last'.logged = "error"]_vars

(* reviewItem has just been called, forgotten, with a key the store does  *)
(* not hold, while the store holds another item.                           *)
C4_Witness ==
    /\ last.op = "reviewItem"
    /\ ~Has(Stored, last.arg[1])
    /\ ~last.arg[2]
    /\ Len(Stored.keys) = 1
    /\ last.logged = "error"

(* ---------------------------------------------------------------------- *)
(* C5.  calculateNextReview(reviewCount) returns now + ladder[min(count,   *)
(* 4)] days: 1 day for count 0 and 30 days for every count >= 4; an item   *)
(* whose count has grown to 4 or past it is scheduled 30 days after the    *)
(* clock value read for it (which is its lastReviewed or up to the drift   *)
(* of the call later).                                                     *)
(* ---------------------------------------------------------------------- *)
C5_NextReviewLadder ==
    /\ last.op = "calculateNextReview" =>
          /\ ParseDate(last.ret) = last.now + Days(Ladder(last.arg))
          /\ last.arg = 0 => ParseDate(last.ret) = last.now + Days(1)
          /\ last.arg >= 4 => ParseDate(last.ret) = last.now + Days(30)
          /\ last.ret = toISOString(ParseDate(last.ret))
    /\ \A k \in StoredKeys :
          Stored.vals[k].reviewCount >= 4 =>
              ParseDate(Stored.vals[k].nextReviewDate)
                    - ParseDate(Stored.vals[k].lastReviewed)
                 \in Days(30)..(Days(30) + MaxDrift)

(* calculateNextReview has just been called with a count past 4 while the *)
(* store holds an item whose count grew past 4.                            *)
C5_Witness ==
    /\ last.op = "calculateNextReview"
    /\ last.arg > 4
    /\ \E k \in StoredKeys : Stored.vals[k].reviewCount > 4

(* ---------------------------------------------------------------------- *)
(* C6.  getDueItems(level?, type?) returns exactly the stored items that   *)
(* match the level and type given (a filter left out matches all) and      *)
(* have nextReviewDate <= now, an item due exactly now included: each      *)
(* once, with its key and its fields, ordered by non-decreasing            *)
(* nextReviewDate; the store is not modified.                              *)
(* ---------------------------------------------------------------------- *)
C6_DueItemsExactSortedReadOnly ==
    [][last'.op = "getDueItems" =>
          LET ret == last'.ret
              due == {k \in StoredKeys :
                         /\ Matches(Stored.vals[k], last'.arg[1], last'.arg[2])
                         /\ ParseDate(Stored.vals[k].nextReviewDate) <= last'.now}
          IN  /\ KeysIn(ret) = due
              /\ Len(ret) = Cardinality(due)
              /\ \A i \in 1..Len(ret) :
                    \A f \in DOMAIN Stored.vals[ret[i].key] :
                        ret[i][f] = Stored.vals[ret[i].key][f]
              /\ \A i, j \in 1..Len(ret) :
                    i < j => ParseDate(ret[i].nextReviewDate)
                                <= ParseDate(ret[j].nextReviewDate)
              /\ localStorage' = localStorage
              /\ ~last'.wrote]_vars

(* getDueItems() has just returned two items, the one stored second       *)
(* first, the other due exactly now, while called with a level it left    *)
(* one of them out.                                                        *)
C6_Witness ==
    /\ last.op = "getDueItems"
    /\ last.arg = <<Null, Null>>
    /\ Len(last.ret) = 2
    /\ last.ret[1].key = Stored.keys[2]
    /\ ParseDate(last.ret[1].nextReviewDate) < ParseDate(last.ret[2].nextReviewDate)
    /\ ParseDate(last.ret[2].nextReviewDate) = last.now

(* ---------------------------------------------------------------------- *)
(* C7.  An item saveItem created at time t (its savedDate) and that was    *)
(* neither reviewed nor deleted since is absent from getDueItems() at      *)
(* every time before t + 1 day and present at every time from t + 1 day    *)
(* on.                                                                     *)
(* ---------------------------------------------------------------------- *)
C7_NewItemDueFromOneDayOn ==
    (last.op = "getDueItems" /\ last.arg = <<Null, Null>>) =>
        \A k \in StoredKeys :
            Stored.vals[k].lastReviewed = NullDate =>
                (k \in KeysIn(last.ret)
                    <=> last.now >= ParseDate(Stored.vals[k].savedDate) + Days(1))

(* ---------------------------------------------------------------------- *)
(* C8.  getAllItems(level?, type?) returns every stored item that matches  *)
(* the level and type given, due or not, each once with its key and        *)
(* fields, ordered by non-increasing savedDate; the store is not           *)
(* modified.                                                               *)
(* ---------------------------------------------------------------------- *)
C8_AllItemsExactSortedReadOnly ==
    [][last'.op = "getAllItems" =>
          LET ret == last'.ret
              all == {k \in StoredKeys :
                         Matches(Stored.vals[k], last'.arg[1], last'.arg[2])}
          IN  /\ KeysIn(ret) = all
              /\ Len(ret) = Cardinality(all)
              /\ \A i \in 1..Len(ret) :
                    \A f \in DOMAIN Stored.vals[ret[i].key] :
                        ret[i][f] = Stored.vals[ret[i].key][f]
              /\ \A i, j \in 1..Len(ret) :
                    i < j => ParseDate(ret[i].savedDate) >= ParseDate(ret[j].savedDate)
              /\ localStorage' = localStorage
              /\ ~last'.wrote]_vars

(* getAllItems() has just returned two items saved at different times,    *)
(* the newer first, one of them not yet due.                               *)
C8_Witness ==
    /\ last.op = "getAllItems"
    /\ Len(last.ret) = 2
    /\ ParseDate(last.ret[1].savedDate) > ParseDate(last.ret[2].savedDate)
    /\ \E i \in 1..2 : ParseDate(last.ret[i].nextReviewDate) > last.now

(* ---------------------------------------------------------------------- *)
(* C9.  getStatistics(level?) returns total = the number of items of that  *)
(* level, dueToday = those of them with nextReviewDate <= now, reviewed =  *)
(* those with reviewCount > 0, mastered = those with reviewCount >= 4; on  *)
(* an empty store the four are 0 and byLevel has exactly the entries a1,   *)
(* a2, b1, b2, c1, c2, each with total, dueToday, vocab and sentences 0.   *)
(* ---------------------------------------------------------------------- *)
C9_StatisticsCounts ==
    last.op = "getStatistics" =>
        LET of == {k \in StoredKeys : Matches(Stored.vals[k], last.arg, Null)}
        IN  /\ last.ret.total = Cardinality(of)
            /\ last.ret.dueToday = Cardinality({k \in of :
                    ParseDate(Stored.vals[k].nextReviewDate) <= last.now})
            /\ last.ret.reviewed = Cardinality({k \in of : Stored.vals[k].reviewCount > 0})
            /\ last.ret.mastered = Cardinality({k \in of : Stored.vals[k].reviewCount >= 4})
            /\ StoredKeys = {} =>
                  /\ last.ret.total = 0 /\ last.ret.dueToday = 0
                  /\ last.ret.reviewed = 0 /\ last.ret.mastered = 0
                  /\ DOMAIN last.ret.byLevel = {"a1", "a2", "b1", "b2", "c1", "c2"}
                  /\ \A lvl \in DOMAIN last.ret.byLevel :
                        last.ret.byLevel[lvl] =
                            [total |-> 0, dueToday |-> 0, vocab |-> 0, sentences |-> 0]

(* getStatistics() has just counted two items: one mastered, the other    *)
(* never reviewed and due.                                                 *)
C9_Witness ==
    /\ last.op = "getStatistics"
    /\ last.arg = Null
    /\ last.ret.total = 2
    /\ last.ret.dueToday = 1
    /\ last.ret.reviewed = 1
    /\ last.ret.mastered = 1

(* ---------------------------------------------------------------------- *)
(* C10.  For every store and every two level arguments (none included),    *)
(* getStatistics gives the same byLevel: all six levels, each counted      *)
(* over the whole store, while total follows the level argument.           *)
(* ---------------------------------------------------------------------- *)
C10_ByLevelIgnoresLevelArgument ==
    last.op = "getStatistics" =>
        /\ DOMAIN last.ret.byLevel = {"a1", "a2", "b1", "b2", "c1", "c2"}
        /\ \A lvl \in DOMAIN last.ret.byLevel :
              LET of == {k \in StoredKeys : Stored.vals[k].level = lvl}
                  sub == last.ret.byLevel[lvl]
              IN  /\ sub.total = Cardinality(of)
                  /\ sub.vocab = Cardinality({k \in of : Stored.vals[k].type = "vocab"})
                  /\ sub.sentences =
                        Cardinality({k \in of : Stored.vals[k].type = "sentence"})
                  /\ \E t \in last.now..clock :
                        sub.dueToday = Cardinality({k \in of :
                            ParseDate(Stored.vals[k].nextReviewDate) <= t})
        /\ \E r \in ReadsFrom(last.now, 1 + Len(levels), clock) :
              \A other \in {Null, "a1", "a2", "b1", "b2", "c1", "c2"} :
                  LET stats == getStatistics(Stored, other, r)
                  IN  /\ stats.byLevel = last.ret.byLevel
                      /\ stats.total = Cardinality({k \in StoredKeys :
                                          Matches(Stored.vals[k], other, Null)})

(* getStatistics("b2") has just returned a total of 1 and a byLevel that  *)
(* counts the a1 item too.                                                 *)
C10_Witness ==
    /\ last.op = "getStatistics"
    /\ last.arg = "b2"
    /\ last.ret.total = 1
    /\ last.ret.byLevel["a1"].total = 1
    /\ last.ret.byLevel["a1"].vocab = 1
    /\ last.ret.byLevel["b2"].sentences = 1

(* ---------------------------------------------------------------------- *)
(* C11.  deleteItem(key) removes the entry under key when it is present    *)
(* (the other entries stay, in their order) and writes the store back;     *)
(* when key is absent it changes nothing, writes nothing to localStorage   *)
(* and raises no error.  removeItem(level, type, id) does to the entry     *)
(* under "level_type_id" what deleteItem does to the one under its key.    *)
(* ---------------------------------------------------------------------- *)
C11_DeleteRemovesOrNoOp ==
    [][last'.op \in {"deleteItem", "removeItem"} =>
          LET key == IF last'.op = "deleteItem" THEN last'.arg ELSE ArgKey(last'.arg)
          IN  /\ ~last'.thrown
              /\ Has(Stored, key) =>
                    /\ StoredNext.keys = SelectSeq(Stored.keys, LAMBDA k : k # key)
                    /\ DOMAIN StoredNext.vals = StoredKeys \ {key}
                    /\ \A k \in StoredKeys \ {key} : StoredNext.vals[k] = Stored.vals[k]
                    /\ last'.wrote
                    /\ localStorage'[storageKey] = JSONstringify(StoredNext)
              /\ ~Has(Stored, key) =>
                    /\ localStorage' = localStorage
                    /\ ~last'.wrote]_vars

(* removeItem has just removed the first of two stored items, and the     *)
(* second is still there.                                                  *)
C11_Witness ==
    /\ last.op = "removeItem"
    /\ last.wrote
    /\ ~Has(Stored, ArgKey(last.arg))
    /\ Len(Stored.keys) = 1

(* deleteItem has just been called with a key the empty localStorage does  *)
(* not hold.                                                               *)
C11_WitnessAbsent ==
    /\ last.op = "deleteItem"
    /\ ~last.wrote
    /\ localStorage = NoStorage

(* ---------------------------------------------------------------------- *)
(* C12.  resetAll() wipes the store only when the user confirms: then it   *)
(* returns true and the store reads as the empty mapping, getAllItems and  *)
(* getDueItems returning nothing; declined, it returns false and the       *)
(* persisted store is the one before the call.                             *)
(* ---------------------------------------------------------------------- *)
C12_ResetOnlyWhenConfirmed ==
    [][last'.op = "resetAll" =>
          IF last'.arg
          THEN /\ last'.ret = TRUE
               /\ StoredNext = EmptyObject
               /\ \A level \in LevelArgs, type \in TypeArgs :
                     /\ getAllItems(StoredNext, level, type) = <<>>
                     /\ \A t \in 0..(MaxNow + Days(30)) :
                           getDueItems(StoredNext, level, type, t) = <<>>
          ELSE /\ last'.ret = FALSE
               /\ localStorage' = localStorage
               /\ ~last'.wrote]_vars

(* resetAll has just returned true, the user having confirmed, and the    *)
(* blob is gone from localStorage.                                         *)
C12_Witness ==
    /\ last.op = "resetAll"
    /\ last.arg
    /\ last.ret = TRUE
    /\ localStorage = NoStorage

(* ---------------------------------------------------------------------- *)
(* C13.  importData leaves the persisted store unchanged and returns       *)
(* false when the file contents fail to parse and when the user declines;  *)
(* when they parse and the user confirms it returns true and the store is  *)
(* exactly the parsed content: the keys the file names, each with the      *)
(* value the file gives it last, and no other entry of the previous store. *)
(* ---------------------------------------------------------------------- *)
C13_ImportReplacesOrLeaves ==
    [][last'.op = "importData" =>
          LET text == last'.arg[1]
              confirmed == last'.arg[2]
              named == {text.members[i][1] : i \in 1..Len(text.members)}
          IN  IF text.kind = "malformed" \/ ~confirmed
              THEN /\ localStorage' = localStorage
                   /\ ~last'.wrote
                   /\ last'.ret = FALSE
              ELSE /\ last'.ret = TRUE
                   /\ IF text.kind = "object"
                      THEN /\ DOMAIN StoredNext.vals = named
                           /\ \A i \in 1..Len(text.members) :
                                 (\A j \in (i + 1)..Len(text.members) :
                                     text.members[j][1] # text.members[i][1])
                                 => StoredNext.vals[text.members[i][1]] = text.members[i][2]
                      ELSE StoredNext = [json |-> text.kind]]_vars

(* importData has just returned true and the store is the one item of the *)
(* file and nothing else, written compactly.                               *)
C13_Witness ==
    /\ last.op = "importData"
    /\ last.arg[2]
    /\ last.ret = TRUE
    /\ last.arg[1] = JSONstringifySpace(OtherStore, 2)
    /\ localStorage[storageKey] = JSONstringify(OtherStore)

(* ---------------------------------------------------------------------- *)
(* C14.  Contents that are well-formed JSON but not a key-to-ReviewItem    *)
(* object are a format error to importData, which does not overwrite the   *)
(* store: after any sequence of imports and exports the persisted store    *)
(* is a mapping of composite keys to ReviewItems.                          *)
(* ---------------------------------------------------------------------- *)
C14_StoreStaysItemMapping ==
    /\ IsObject(Stored)
    /\ \A k \in DOMAIN Stored.vals :
          /\ DOMAIN Stored.vals[k] =
                {"level", "type", "id", "data", "savedDate", "lastReviewed",
                 "reviewCount", "nextReviewDate", "lastModified"}
          /\ k = MakeKey(Stored.vals[k].level, Stored.vals[k].type, Stored.vals[k].id)

(* ---------------------------------------------------------------------- *)
(* C15.  Round trip: exportData and then importData of the file it         *)
(* downloaded, the confirmation accepted, leave a persisted store equal    *)
(* to the one exported: the same keys in the same order, and under each    *)
(* key the same level, type, id, data, savedDate, lastReviewed,            *)
(* reviewCount, nextReviewDate and lastModified.                           *)
(* ---------------------------------------------------------------------- *)
C15_ExportImportRoundTrip ==
    [][(/\ last.op = "exportData"
        /\ last'.op = "importData"
        /\ last'.arg[1] = last.downloaded.text
        /\ last'.arg[2])
       => /\ last'.ret = TRUE
          /\ last'.wrote
          /\ StoredNext = Stored
          /\ localStorage'[storageKey] = JSONstringify(Stored)]_vars

(* importData has just stored the two items of an indented backup, one of *)
(* them reviewed, the other never.                                         *)
C15_Witness ==
    /\ last.op = "importData"
    /\ last.arg[2]
    /\ last.ret = TRUE
    /\ last.arg[1].space = 2
    /\ IsObject(Stored)
    /\ Len(Stored.keys) = 2
    /\ Stored.vals[Stored.keys[1]].lastReviewed # NullDate
    /\ Stored.vals[Stored.keys[2]].lastReviewed = NullDate
    /\ localStorage[storageKey].space = 0

(* ---------------------------------------------------------------------- *)
(* C16.  In every state reached by saveItem, reviewItem, deleteItem,       *)
(* removeItem and resetAll with an advancing clock, every stored item has  *)
(* nextReviewDate = base + ladder[min(reviewCount, 4)] days, base being    *)
(* lastReviewed when it is not null and savedDate otherwise.               *)
(* ---------------------------------------------------------------------- *)
C16_NextReviewFromBase ==
    \A k \in StoredKeys :
        LET item == Stored.vals[k]
            base == IF item.lastReviewed # NullDate THEN item.lastReviewed
                    ELSE item.savedDate
        IN  ParseDate(item.nextReviewDate)
                = ParseDate(base) + Days(Ladder(item.reviewCount))

(* ---------------------------------------------------------------------- *)
(* C17.  lastModified is updated on every mutation of an item, a review    *)
(* included, so in every reachable state an item that was reviewed has     *)
(* lastModified >= lastReviewed.                                           *)
(* ---------------------------------------------------------------------- *)
C17_LastModifiedCoversReviews ==
    \A k \in StoredKeys :
        Stored.vals[k].lastReviewed # NullDate =>
            ParseDate(Stored.vals[k].lastModified)
                >= ParseDate(Stored.vals[k].lastReviewed)

(* ---------------------------------------------------------------------- *)
(* C18.  A mutating operation is a read of the whole store, an update of   *)
(* the copy and a write of the whole store, with nothing to isolate two    *)
(* callers.  Two pages having each saved a different key: when both read   *)
(* before either wrote, the final store holds the later writer's change    *)
(* and is otherwise the store both read, the earlier writer's update       *)
(* lost; when the earlier writer wrote before the other read, both         *)
(* changes are in the final store.                                         *)
(* ---------------------------------------------------------------------- *)
C18_LastWriterWins ==
    \A e, l \in Tabs :
        (/\ tabs[e].pc = "done" /\ tabs[l].pc = "done"
         /\ tabs[e].write < tabs[l].write
         /\ ArgKeyOf(tabs[e].arg) # ArgKeyOf(tabs[l].arg))
        => LET ke == ArgKeyOf(tabs[e].arg)
               kl == ArgKeyOf(tabs[l].arg)
               before == tabs[l].allData
           IN  /\ Has(Stored, kl)
               /\ Stored.vals[kl].data = tabs[l].arg[4]
               /\ IF tabs[l].read < tabs[e].write
                  THEN /\ before = tabs[e].allData
                       /\ StoredKeys = DOMAIN before.vals \cup {kl}
                       /\ \A k \in StoredKeys \ {kl} : Stored.vals[k] = before.vals[k]
                       /\ Has(Stored, ke) <=> Has(before, ke)
                  ELSE /\ Has(Stored, ke)
                       /\ Stored.vals[ke].data = tabs[e].arg[4]

(* Both pages read an empty store before either wrote: the store holds    *)
(* the item of the page that wrote second and not the item of the other.   *)
C18_Witness ==
    \E e, l \in Tabs :
        /\ tabs[e].pc = "done" /\ tabs[l].pc = "done"
        /\ tabs[e].write < tabs[l].write
        /\ tabs[l].read < tabs[e].write
        /\ ArgKeyOf(tabs[e].arg) # ArgKeyOf(tabs[l].arg)
        /\ tabs[l].allData = EmptyObject
        /\ StoredKeys = {ArgKeyOf(tabs[l].arg)}

(* The pages saved one after the other and the store holds both items.    *)
C18_WitnessInTurn ==
    \E e, l \in Tabs :
        /\ tabs[e].pc = "done" /\ tabs[l].pc = "done"
        /\ tabs[e].write < tabs[l].read
        /\ tabs[e].allData = EmptyObject
        /\ StoredKeys = {ArgKeyOf(tabs[e].arg), ArgKeyOf(tabs[l].arg)}
        /\ Cardinality(StoredKeys) = 2

(* ---------------------------------------------------------------------- *)
(* C19.  saveItem, reviewItem, deleteItem and removeItem change at most    *)
(* the entry at the key they target: every other key is present after the  *)
(* call exactly if it was before, with the same fields; and the key of     *)
(* every stored entry is "level_type_id" built from the entry's own        *)
(* level, type and id.                                                     *)
(* ---------------------------------------------------------------------- *)
C19_OnlyTargetKeyChanges ==
    /\ [](\A k \in StoredKeys :
              k = MakeKey(Stored.vals[k].level, Stored.vals[k].type, Stored.vals[k].id))
    /\ [][last'.op \in {"saveItem", "reviewItem", "deleteItem", "removeItem"} =>
             LET target == CASE last'.op = "saveItem" -> ArgKey(last'.arg)
                             [] last'.op = "reviewItem" -> last'.arg[1]
                             [] last'.op = "deleteItem" -> last'.arg
                             [] OTHER -> ArgKey(last'.arg)
             IN  \A k \in (StoredKeys \cup DOMAIN StoredNext.vals) \ {target} :
                     /\ Has(Stored, k) /\ Has(StoredNext, k)
                     /\ StoredNext.vals[k] = Stored.vals[k]]_vars

(* reviewItem has just rescheduled one of two stored items, and the other, *)
(* never reviewed, is still stored.                                        *)
C19_Witness ==
    /\ last.op = "reviewItem"
    /\ last.wrote
    /\ Len(Stored.keys) = 2
    /\ Stored.vals[last.arg[1]].lastReviewed = toISOString(last.now)
    /\ \E k \in StoredKeys \ {last.arg[1]} : Stored.vals[k].lastReviewed = NullDate

(* ---------------------------------------------------------------------- *)
(* C20.  In every state reached by saveItem, reviewItem, deleteItem and    *)
(* resetAll, the stored keys are those saved and not deleted since, and    *)
(* each item's reviewCount is the number of consecutive remembered         *)
(* reviews of its key since it was created or last forgotten (a re-save    *)
(* leaves it, a delete and a new save restart it at 0); so getStatistics   *)
(* counts as mastered the items with at least 4 consecutive remembered     *)
(* reviews, as reviewed those with at least one, and an item just          *)
(* forgotten in neither.                                                   *)
(* ---------------------------------------------------------------------- *)
C20_ReviewCountIsStreak ==
    /\ StoredKeys = DOMAIN streak
    /\ \A k \in StoredKeys : Stored.vals[k].reviewCount = streak[k]
    /\ last.op = "getStatistics" =>
          LET of == {k \in DOMAIN streak : Matches(Stored.vals[k], last.arg, Null)}
          IN  /\ last.ret.mastered = Cardinality({k \in of : streak[k] >= 4})
              /\ last.ret.reviewed = Cardinality({k \in of : streak[k] >= 1})
    /\ (last.op = "reviewItem" /\ ~last.arg[2] /\ Has(Stored, last.arg[1])) =>
          LET stats == getStatistics(Stored, Null, [i \in 1..(1 + Len(levels)) |-> clock])
          IN  /\ Stored.vals[last.arg[1]].reviewCount = 0
              /\ stats.mastered = Cardinality({k \in StoredKeys \ {last.arg[1]} :
                                      streak[k] >= 4})
              /\ stats.reviewed = Cardinality({k \in StoredKeys \ {last.arg[1]} :
                                      streak[k] >= 1})

(* getStatistics has just counted as mastered an item remembered four     *)
(* times in a row.                                                         *)
C20_Witness ==
    /\ last.op = "getStatistics"
    /\ last.ret.mastered = 1
    /\ \E k \in StoredKeys : streak[k] = 4 /\ Stored.vals[k].reviewCount = 4

====
